---- MODULE Spec2Model ----
(***************************************************************************)
(* A model of embqtt's wire-format codec: the primitive readers and        *)
(* writers of src/packet/data_representation.rs, the fixed header of       *)
(* src/packet/fixed_header.rs and the error conversion of src/error.rs.    *)
(*                                                                         *)
(* One call runs at a time.  Every step of a call is one operation on the  *)
(* channel (a read_exact or a write_all) together with the code that runs  *)
(* between that operation and the next one, or the return.                 *)
(***************************************************************************)
EXTENDS Integers, Sequences, FiniteSets, TLC

\* ------------------------------------------------------------------ bounds

\* Longest byte stream handed to a read call.
MaxStream == 5
\* Largest number of bytes a write channel accepts before it fails.
MaxCap == 6

\* ------------------------------------------------------- program constants

VARINT_CONTINUATION_BIT_MASK == 128
\* 0b0000_1111, the low-nibble mask of fixed_header.rs
LOW_NIBBLE_MASK == 15
\* u8 holds 0..255
U8Modulus == 256
\* A u32 is held as two 16-bit limbs, [hi, lo], of value hi * 65536 + lo: the
\* model checker's own integers end at 2^31 - 1.
Limb == 256 * 256

\* --------------------------------------------------------------- inputs

\* Bytes the read channels deliver: both values of the continuation bit, with
\* the least, the greatest and an intermediate seven-bit digit.
SampleBytes == {0, 1, 127, 128, 129, 255}
\* Bytes after the control byte of a header stream.
TailBytes == {0, 127, 128, 255}
\* Every control byte.
ControlBytes == 0..255
\* u32 values written: the edges of each encoded length, and two values
\* beyond the variable-byte-integer range.
SampleNats ==
    {0, 1, 127, 128, 129, 255, 256, 16383, 16384, 32767, 65535, 2097151,
     2097152, 268435455, 268435456, 305419896}
SampleU16 == {0, 1, 255, 256, 4660, 65535}
SampleU8 == {0, 1, 66, 127, 128, 255}
\* The flags field is a u8; the in-range values and two with high bits set.
SampleFlags == (0..15) \cup {29, 255}
\* Errors of the transport, opaque to the codec.
TransportErrors == {"e1", "e2"}

SeqsUpTo(S, n) == UNION {[1..k -> S] : k \in 0..n}

\* ------------------------------------------------------ machine arithmetic

RECURSIVE BitAndN(_, _, _)
BitAndN(a, b, n) ==
    IF n = 0 THEN 0
    ELSE (a % 2) * (b % 2) + 2 * BitAndN(a \div 2, b \div 2, n - 1)

RECURSIVE BitOrN(_, _, _)
BitOrN(a, b, n) ==
    IF n = 0 THEN 0
    ELSE (IF (a % 2) + (b % 2) > 0 THEN 1 ELSE 0)
         + 2 * BitOrN(a \div 2, b \div 2, n - 1)

RECURSIVE Pow2(_)
Pow2(k) == IF k = 0 THEN 1 ELSE 2 * Pow2(k - 1)

\* u8 operators: &, |, !, <<, >>
And8(a, b) == BitAndN(a, b, 8)
Or8(a, b) == BitOrN(a, b, 8)
Not8(a) == (U8Modulus - 1) - a
Shl8(a, k) == (a * Pow2(k)) % U8Modulus
Shr8(a, k) == a \div Pow2(k)

\* The u32 of a number below 2^31, and the number of a u32 below 2^31.
U32Of(n) == [hi |-> n \div Limb, lo |-> n % Limb]
NatOf(x) == x.hi * Limb + x.lo
U32Max == [hi |-> Limb - 1, lo |-> Limb - 1]
SampleU32 ==
    {U32Of(n) : n \in SampleNats} \cup {[hi |-> 32768, lo |-> 0], U32Max}

\* u32 +: the wrapped sum and whether the sum left the u32 range
Add32(a, b) ==
    LET lo == a.lo + b.lo
        hi == a.hi + b.hi + (lo \div Limb)
    IN  [val |-> [hi |-> hi % Limb, lo |-> lo % Limb], wrapped |-> hi >= Limb]

\* a * k for a u32 a and a number k below 2^15
MulSmall(a, k) ==
    LET lo == a.lo * k
        hi == a.hi * k + (lo \div Limb)
    IN  [val |-> [hi |-> hi % Limb, lo |-> lo % Limb], wrapped |-> hi >= Limb]

\* u32 *: the wrapped product and whether the product left the u32 range.  One
\* factor of every product of the program is below 2^15.
Mul32(a, b) ==
    IF b.hi = 0 /\ b.lo < 32768 THEN MulSmall(a, b.lo) ELSE MulSmall(b, a.lo)

\* u32 /, % by a number k below 2^15
Div32(a, k) ==
    [hi |-> a.hi \div k, lo |-> ((a.hi % k) * Limb + a.lo) \div k]
Mod32(a, k) == ((a.hi % k) * Limb + a.lo) % k

\* u32 >
Gt32(a, b) == a.hi > b.hi \/ (a.hi = b.hi /\ a.lo > b.lo)

\* u16::from_be_bytes, and u32::from_be_bytes's two halves
from_be_bytes16(buf) == buf[1] * U8Modulus + buf[2]
\* u16::from_be_bytes and u32::from_be_bytes, as a u32
from_be_bytes(buf) ==
    IF Len(buf) = 2 THEN [hi |-> 0, lo |-> from_be_bytes16(buf)]
    ELSE [hi |-> from_be_bytes16(SubSeq(buf, 1, 2)),
          lo |-> from_be_bytes16(SubSeq(buf, 3, 4))]

\* u16::to_be_bytes
to_be_bytes16(n) == <<n \div U8Modulus, n % U8Modulus>>
\* u16::to_be_bytes (n = 2) and u32::to_be_bytes (n = 4) of a value held as a u32
to_be_bytes(x, n) ==
    IF n = 2 THEN to_be_bytes16(x.lo)
    ELSE to_be_bytes16(x.hi) \o to_be_bytes16(x.lo)

\* ------------------------------------------------------------ PacketType

PacketTypes ==
    <<"Reserved", "Connect", "ConnAck", "Publish", "PubAck", "PubRec",
      "PubRel", "PubComp", "Subscribe", "SubAck", "Unsubscribe", "UnsubAck",
      "PingReq", "PingResp", "Disconnect", "Auth">>

PacketTypeSet == {PacketTypes[i] : i \in 1..Len(PacketTypes)}

\* PacketType::to_bits
to_bits_Swapped(t) ==
    CASE t = "Reserved" -> 0
      [] t = "Connect" -> 1
      [] t = "ConnAck" -> 2
      [] t = "Publish" -> 3
      [] t = "PubAck" -> 4
      [] t = "PubRec" -> 5
      [] t = "PubRel" -> 6
      [] t = "PubComp" -> 7
      [] t = "Subscribe" -> 8
      [] t = "SubAck" -> 9
      [] t = "Unsubscribe" -> 10
      [] t = "UnsubAck" -> 11
      [] t = "PingReq" -> 13
      [] t = "PingResp" -> 12
      [] t = "Disconnect" -> 14
      [] t = "Auth" -> 15

to_bits(t) ==
    CASE t = "Reserved" -> 0
      [] t = "Connect" -> 1
      [] t = "ConnAck" -> 2
      [] t = "Publish" -> 3
      [] t = "PubAck" -> 4
      [] t = "PubRec" -> 5
      [] t = "PubRel" -> 6
      [] t = "PubComp" -> 7
      [] t = "Subscribe" -> 8
      [] t = "SubAck" -> 9
      [] t = "Unsubscribe" -> 10
      [] t = "UnsubAck" -> 11
      [] t = "PingReq" -> 12
      [] t = "PingResp" -> 13
      [] t = "Disconnect" -> 14
      [] t = "Auth" -> 15

\* The match of PacketType::from_bits on the masked bits; the last arm is
\* unreachable!().
FromBitsMatch(bits) ==
    IF bits \in 0..15 THEN PacketTypes[bits + 1] ELSE "unreachable"

\* PacketType::from_bits without the mask
from_bits_NoMask(bits) == FromBitsMatch(bits)

\* PacketType::from_bits
from_bits(bits) == FromBitsMatch(And8(bits, LOW_NIBBLE_MASK))

\* ------------------------------------------------------------------ Error

Zero32 == [hi |-> 0, lo |-> 0]
NoHeader == [type_ |-> "none", flags |-> 0, remaining_length |-> Zero32]

\* Result values.  val is the scalar of an Ok, widened to a u32 (zero for ());
\* hdr its FixedHeader or PacketType; err the transport error a NetworkError
\* carries.
Pending == [kind |-> "Pending", val |-> Zero32, hdr |-> NoHeader, err |-> "none"]
Ok(v) == [kind |-> "Ok", val |-> v, hdr |-> NoHeader, err |-> "none"]
OkUnit == [kind |-> "Ok", val |-> Zero32, hdr |-> NoHeader, err |-> "none"]
OkHeader(h) == [kind |-> "Ok", val |-> Zero32, hdr |-> h, err |-> "none"]
OkType(t) == OkHeader([NoHeader EXCEPT !.type_ = t])
\* Error::MalformedPacketError
MalformedPacketError ==
    [kind |-> "MalformedPacketError", val |-> Zero32, hdr |-> NoHeader,
     err |-> "none"]
\* Error::NetworkError(e)
NetworkError(e) ==
    [kind |-> "NetworkError", val |-> Zero32, hdr |-> NoHeader, err |-> e]

\* embedded_io_async::ReadExactError<E>
UnexpectedEof == [kind |-> "UnexpectedEof", err |-> "none"]
Other(e) == [kind |-> "Other", err |-> e]
NoReadError == [kind |-> "none", err |-> "none"]
ReadExactErrors == {UnexpectedEof} \cup {Other(e) : e \in TransportErrors}

\* A conversion that reports every read failure as a transport failure.
FromReadExactError_AllNetwork(e) == NetworkError(e.err)

\* impl From<ReadExactError<E>> for Error<E>
FromReadExactError(e) ==
    IF e.kind = "UnexpectedEof" THEN MalformedPacketError
    ELSE NetworkError(e.err)

\* ------------------------------------------------------------------ state

VARIABLES
    call,        \* the function being executed, "none" between calls
    pc,          \* where the call stands: idle, body, ctl, vbi, done
    arg,         \* the call's argument: [val, hdr]
    inp,         \* the bytes the read channel holds
    rpos,        \* how many of them the channel has delivered
    out,         \* the bytes the write channel has accepted
    cap,         \* how many bytes the write channel accepts before failing
    multiplier,  \* read_variable_byte_integer's local
    value,       \* read_variable_byte_integer's local
    num,         \* write_variable_byte_integer's local
    type_,       \* FixedHeader::read's local
    flags,       \* FixedHeader::read's local
    res,         \* what the call returned
    log,         \* the channel operations the call issued, in order
    prev,        \* the call whose output this call was started from
    overflow     \* whether a u32 operation of the call left the u32 range

vars ==
    <<call, pc, arg, inp, rpos, out, cap, multiplier, value, num, type_, flags,
      res, log, prev, overflow>>

NoArg == [val |-> Zero32, hdr |-> NoHeader]
ValArg(v) == [val |-> v, hdr |-> NoHeader]
HdrArg(h) == [val |-> Zero32, hdr |-> h]
NoPrev == [call |-> "none", arg |-> NoArg, bytes |-> <<>>]

FixedReads == {"read_u8", "read_u16", "read_u32"}
FixedWrites == {"write_u8", "write_u16", "write_u32"}
ReadCalls ==
    FixedReads \cup {"read_variable_byte_integer", "FixedHeader::read"}
WriteCalls ==
    FixedWrites \cup {"write_variable_byte_integer", "FixedHeader::write"}

EntryPc(c) ==
    CASE c \in FixedReads \cup FixedWrites -> "body"
      [] c \in {"read_variable_byte_integer", "write_variable_byte_integer"} -> "vbi"
      [] c \in {"FixedHeader::read", "FixedHeader::write"} -> "ctl"

Init ==
    /\ call = "none"
    /\ pc = "idle"
    /\ arg = NoArg
    /\ inp = <<>>
    /\ rpos = 0
    /\ out = <<>>
    /\ cap = 0
    /\ multiplier = U32Of(1)
    /\ value = Zero32
    /\ num = Zero32
    /\ type_ = "none"
    /\ flags = 0
    /\ res = Pending
    /\ log = <<>>
    /\ prev = NoPrev
    /\ overflow = FALSE

\* Entry into call c with argument a, over a read channel holding s and a write
\* channel of capacity k.
Begin(c, a, s, k, p) ==
    /\ call' = c
    /\ pc' = EntryPc(c)
    /\ arg' = a
    /\ inp' = s
    /\ rpos' = 0
    /\ out' = <<>>
    /\ cap' = k
    /\ multiplier' = U32Of(1)
    /\ value' = Zero32
    /\ num' = a.val
    /\ type_' = "none"
    /\ flags' = 0
    /\ res' = Pending
    /\ log' = <<>>
    /\ prev' = p
    /\ overflow' = FALSE

\* ---------------------------------------------------------------- channel

\* Read::read_exact of n bytes: the outcomes the channel can produce.  It
\* delivers the next n bytes; once its data runs out it fails, with
\* UnexpectedEof or with an error of its own.
ReadExact(n) ==
    IF Len(inp) - rpos >= n
    THEN {[ok |-> TRUE, buf |-> SubSeq(inp, rpos + 1, rpos + n), got |-> n,
           error |-> NoReadError]}
    ELSE {[ok |-> FALSE, buf |-> <<>>, got |-> Len(inp) - rpos, error |-> e] :
            e \in ReadExactErrors}

ReadEntry(n, o) ==
    [op |-> "read_exact", n |-> n, got |-> o.got, ok |-> o.ok,
     status |-> IF o.ok THEN "Ok"
                ELSE IF o.error.kind = "UnexpectedEof" THEN "UnexpectedEof"
                ELSE o.error.err]

\* Write::write_all of bytes: the channel accepts bytes while it has room and
\* fails with an error of its own when it has none left.
WriteAll(bytes) ==
    IF cap - Len(out) >= Len(bytes)
    THEN {[ok |-> TRUE, got |-> Len(bytes), err |-> "none"]}
    ELSE {[ok |-> FALSE, got |-> cap - Len(out), err |-> e] :
            e \in TransportErrors}

WriteEntry(bytes, o) ==
    [op |-> "write_all", n |-> Len(bytes), got |-> o.got, ok |-> o.ok,
     status |-> IF o.ok THEN "Ok" ELSE o.err]

\* ---------------------------------------------------- data_representation

Locals == <<multiplier, value, num, type_, flags>>
Frame == <<call, arg, inp, cap, prev>>

\* read_u8: Ok(buf[0])
read_u8_Result(o) ==
    IF o.ok THEN Ok(U32Of(o.buf[1])) ELSE FromReadExactError(o.error)

\* read_u16, read_u32: Ok(from_be_bytes(buf))
read_be_Result(o) ==
    IF o.ok THEN Ok(from_be_bytes(o.buf)) ELSE FromReadExactError(o.error)

read_u8 ==
    /\ call = "read_u8" /\ pc = "body"
    /\ \E o \in ReadExact(1) :
        /\ rpos' = rpos + o.got
        /\ log' = Append(log, ReadEntry(1, o))
        /\ res' = read_u8_Result(o)
    /\ pc' = "done"
    /\ UNCHANGED <<Frame, Locals, out, overflow>>

read_u16 ==
    /\ call = "read_u16" /\ pc = "body"
    /\ \E o \in ReadExact(2) :
        /\ rpos' = rpos + o.got
        /\ log' = Append(log, ReadEntry(2, o))
        /\ res' = read_be_Result(o)
    /\ pc' = "done"
    /\ UNCHANGED <<Frame, Locals, out, overflow>>

read_u32 ==
    /\ call = "read_u32" /\ pc = "body"
    /\ \E o \in ReadExact(4) :
        /\ rpos' = rpos + o.got
        /\ log' = Append(log, ReadEntry(4, o))
        /\ res' = read_be_Result(o)
    /\ pc' = "done"
    /\ UNCHANGED <<Frame, Locals, out, overflow>>

\* value += u32::from(encoded_byte & !MASK) * multiplier, with the digit's
\* weight left out
Accumulate_NoWeight(v, encoded_byte, m) ==
    LET digit == And8(encoded_byte, Not8(VARINT_CONTINUATION_BIT_MASK))
        sum == Add32(v, U32Of(digit))
    IN  [val |-> sum.val, wrapped |-> sum.wrapped]

\* value += u32::from(encoded_byte & !VARINT_CONTINUATION_BIT_MASK) * multiplier
Accumulate(v, encoded_byte, m) ==
    LET digit == And8(encoded_byte, Not8(VARINT_CONTINUATION_BIT_MASK))
        prod == Mul32(U32Of(digit), m)
        sum == Add32(v, prod.val)
    IN  [val |-> sum.val, wrapped |-> prod.wrapped \/ sum.wrapped]

\* The last-byte test made on the digit instead of the continuation bit.
IsLastByte_DigitTest(encoded_byte) ==
    And8(encoded_byte, Not8(VARINT_CONTINUATION_BIT_MASK)) = 0

\* encoded_byte & VARINT_CONTINUATION_BIT_MASK == 0
IsLastByte(encoded_byte) == And8(encoded_byte, VARINT_CONTINUATION_BIT_MASK) = 0

\* A length check that lets a fifth byte through.
TooManyBytes_OffByOne(m) == Gt32(m, U32Of(128 * 128 * 128 * 128))

\* multiplier > 128 * 128 * 128
TooManyBytes(m) == Gt32(m, U32Of(128 * 128 * 128))

\* FixedHeader::read's use of read_variable_byte_integer's result: the `?` and
\* the Ok(Self { type_, flags, remaining_length })
HeaderReadResult(r) ==
    IF r.kind = "Ok"
    THEN OkHeader([type_ |-> type_, flags |-> flags, remaining_length |-> r.val])
    ELSE r

\* What the caller of read_variable_byte_integer gets for its result r.
ReadVbiReturn(r) == IF call = "FixedHeader::read" THEN HeaderReadResult(r) ELSE r

\* One pass of read_variable_byte_integer's loop, standing alone or called by
\* FixedHeader::read.
read_variable_byte_integer ==
    /\ call \in {"read_variable_byte_integer", "FixedHeader::read"}
    /\ pc = "vbi"
    /\ \E o \in ReadExact(1) :
        /\ rpos' = rpos + o.got
        /\ log' = Append(log, ReadEntry(1, o))
        /\ IF ~o.ok
           THEN /\ res' = ReadVbiReturn(FromReadExactError(o.error))
                /\ pc' = "done"
                /\ UNCHANGED <<value, multiplier, overflow>>
           ELSE LET encoded_byte == o.buf[1]
                    acc == Accumulate(value, encoded_byte, multiplier)
                    m == Mul32(multiplier, U32Of(128))
                IN  /\ value' = acc.val
                    /\ IF IsLastByte(encoded_byte)
                       THEN /\ res' = ReadVbiReturn(Ok(acc.val))
                            /\ pc' = "done"
                            /\ overflow' = (overflow \/ acc.wrapped)
                            /\ UNCHANGED multiplier
                       ELSE /\ multiplier' = m.val
                            /\ overflow' = (overflow \/ acc.wrapped \/ m.wrapped)
                            /\ IF TooManyBytes(m.val)
                               THEN /\ res' = ReadVbiReturn(MalformedPacketError)
                                    /\ pc' = "done"
                               ELSE /\ res' = res
                                    /\ pc' = "vbi"
    /\ UNCHANGED <<Frame, num, type_, flags, out>>

\* A failed write that the caller does not return on.
ReturnsErr_Never(o) == FALSE

\* .map_err(|e| Error::NetworkError(e))?: a failed write ends the call
ReturnsErr(o) == ~o.ok

\* write_u8, write_u16, write_u32: write_all, map_err
write_Result(o) == IF o.ok THEN OkUnit ELSE NetworkError(o.err)

write_u8 ==
    /\ call = "write_u8" /\ pc = "body"
    /\ LET bytes == <<arg.val.lo>>
       IN  \E o \in WriteAll(bytes) :
            /\ out' = out \o SubSeq(bytes, 1, o.got)
            /\ log' = Append(log, WriteEntry(bytes, o))
            /\ res' = write_Result(o)
    /\ pc' = "done"
    /\ UNCHANGED <<Frame, Locals, rpos, overflow>>

write_u16 ==
    /\ call = "write_u16" /\ pc = "body"
    /\ LET bytes == to_be_bytes(arg.val, 2)
       IN  \E o \in WriteAll(bytes) :
            /\ out' = out \o SubSeq(bytes, 1, o.got)
            /\ log' = Append(log, WriteEntry(bytes, o))
            /\ res' = write_Result(o)
    /\ pc' = "done"
    /\ UNCHANGED <<Frame, Locals, rpos, overflow>>

write_u32 ==
    /\ call = "write_u32" /\ pc = "body"
    /\ LET bytes == to_be_bytes(arg.val, 4)
       IN  \E o \in WriteAll(bytes) :
            /\ out' = out \o SubSeq(bytes, 1, o.got)
            /\ log' = Append(log, WriteEntry(bytes, o))
            /\ res' = write_Result(o)
    /\ pc' = "done"
    /\ UNCHANGED <<Frame, Locals, rpos, overflow>>

\* The encoded byte with the continuation bit never set.
EncodedByte_NoContinuation(n) == Mod32(n, 128)

\* The encoded byte with the continuation bit set one digit too late.
EncodedByte_LateContinuation(n) ==
    IF Gt32(Div32(n, 128), U32Of(127))
    THEN Or8(Mod32(n, 128), VARINT_CONTINUATION_BIT_MASK)
    ELSE Mod32(n, 128)

\* encoded_byte = num % 128; num /= 128; if num > 0 { encoded_byte |= MASK }
EncodedByte(n) ==
    IF Gt32(Div32(n, 128), Zero32)
    THEN Or8(Mod32(n, 128), VARINT_CONTINUATION_BIT_MASK)
    ELSE Mod32(n, 128)

\* One pass of write_variable_byte_integer's loop, standing alone or called by
\* FixedHeader::write, which returns its result as it is.
write_variable_byte_integer ==
    /\ call \in {"write_variable_byte_integer", "FixedHeader::write"}
    /\ pc = "vbi"
    /\ LET bytes == <<EncodedByte(num)>>
       IN  \E o \in WriteAll(bytes) :
            /\ num' = Div32(num, 128)
            /\ out' = out \o SubSeq(bytes, 1, o.got)
            /\ log' = Append(log, WriteEntry(bytes, o))
            /\ IF ReturnsErr(o)
               THEN /\ res' = NetworkError(o.err)
                    /\ pc' = "done"
               ELSE IF num' = Zero32
                    THEN /\ res' = OkUnit
                         /\ pc' = "done"
                    ELSE /\ res' = res
                         /\ pc' = "vbi"
    /\ UNCHANGED <<Frame, multiplier, value, type_, flags, rpos, overflow>>

\* ------------------------------------------------------------ fixed_header

\* The flags taken from the whole control byte.
HeaderFlags_Unmasked(control_byte) == control_byte

\* let flags = control_byte & 0b0000_1111
HeaderFlags(control_byte) == And8(control_byte, LOW_NIBBLE_MASK)

\* let type_ = PacketType::from_bits(control_byte >> 4)
HeaderType(control_byte) == from_bits(Shr8(control_byte, 4))

\* The control byte with the flags in the high nibble and the type in the low.
ControlByte_NibblesSwapped(h) ==
    Or8(Shl8(And8(h.flags, LOW_NIBBLE_MASK), 4), to_bits(h.type_))

\* let control_byte = (self.type_.to_bits() << 4) | (self.flags & 0b0000_1111)
ControlByte(h) ==
    Or8(Shl8(to_bits(h.type_), 4), And8(h.flags, LOW_NIBBLE_MASK))

\* FixedHeader::read up to its call of read_variable_byte_integer
FixedHeader_read ==
    /\ call = "FixedHeader::read" /\ pc = "ctl"
    /\ \E o \in ReadExact(1) :
        /\ rpos' = rpos + o.got
        /\ log' = Append(log, ReadEntry(1, o))
        /\ LET r == read_u8_Result(o)
           IN  IF r.kind # "Ok"
               THEN /\ res' = r
                    /\ pc' = "done"
                    /\ UNCHANGED <<type_, flags>>
               ELSE /\ type_' = HeaderType(r.val.lo)
                    /\ flags' = HeaderFlags(r.val.lo)
                    /\ res' = res
                    /\ pc' = "vbi"
    /\ multiplier' = U32Of(1)
    /\ value' = Zero32
    /\ UNCHANGED <<Frame, num, out, overflow>>

\* FixedHeader::write up to its call of write_variable_byte_integer
FixedHeader_write ==
    /\ call = "FixedHeader::write" /\ pc = "ctl"
    /\ LET bytes == <<ControlByte(arg.hdr)>>
       IN  \E o \in WriteAll(bytes) :
            /\ out' = out \o SubSeq(bytes, 1, o.got)
            /\ log' = Append(log, WriteEntry(bytes, o))
            /\ IF ReturnsErr(o)
               THEN /\ res' = write_Result(o)
                    /\ pc' = "done"
               ELSE /\ res' = res
                    /\ pc' = "vbi"
    /\ num' = arg.hdr.remaining_length
    /\ UNCHANGED <<Frame, multiplier, value, type_, flags, rpos, overflow>>

\* PacketType::from_bits and PacketType::to_bits, called on their own.
Channelless == <<inp, rpos, out, cap, multiplier, value, num, type_, flags,
                 log, overflow>>

Call_from_bits(bits, p) ==
    /\ call' = "PacketType::from_bits"
    /\ arg' = ValArg(U32Of(bits))
    /\ res' = OkType(from_bits(bits))
    /\ pc' = "done"
    /\ prev' = p
    /\ UNCHANGED Channelless

Call_to_bits(t, p) ==
    /\ call' = "PacketType::to_bits"
    /\ arg' = HdrArg([NoHeader EXCEPT !.type_ = t])
    /\ res' = Ok(U32Of(to_bits(t)))
    /\ pc' = "done"
    /\ prev' = p
    /\ UNCHANGED Channelless

\* ------------------------------------------------------------------ callers

Headers ==
    [type_ : PacketTypeSet, flags : SampleFlags, remaining_length : SampleU32]

HeaderStreams ==
    {<<>>} \cup
    {<<b>> \o t : b \in ControlBytes, t \in SeqsUpTo(TailBytes, MaxStream - 1)}

CallRead ==
    /\ pc = "idle"
    /\ \E c \in FixedReads \cup {"read_variable_byte_integer"} :
       \E s \in SeqsUpTo(SampleBytes, MaxStream) :
            Begin(c, NoArg, s, 0, NoPrev)

CallHeaderRead ==
    /\ pc = "idle"
    /\ \E s \in HeaderStreams : Begin("FixedHeader::read", NoArg, s, 0, NoPrev)

CallWrite ==
    /\ pc = "idle"
    /\ \E c \in FixedWrites \cup {"write_variable_byte_integer"} :
       \E v \in (CASE c = "write_u8" -> {U32Of(n) : n \in SampleU8}
                   [] c = "write_u16" -> {U32Of(n) : n \in SampleU16}
                   [] OTHER -> SampleU32) :
       \E k \in 0..MaxCap :
            Begin(c, ValArg(v), <<>>, k, NoPrev)

CallHeaderWrite ==
    /\ pc = "idle"
    /\ \E h \in Headers :
       \E k \in 0..MaxCap :
            Begin("FixedHeader::write", HdrArg(h), <<>>, k, NoPrev)

CallFromBits ==
    /\ pc = "idle"
    /\ \E bits \in 0..255 : Call_from_bits(bits, NoPrev)

CallToBits ==
    /\ pc = "idle"
    /\ \E t \in PacketTypeSet : Call_to_bits(t, NoPrev)

ReaderOf(c) ==
    CASE c = "write_u8" -> "read_u8"
      [] c = "write_u16" -> "read_u16"
      [] c = "write_u32" -> "read_u32"
      [] c = "write_variable_byte_integer" -> "read_variable_byte_integer"
      [] c = "FixedHeader::write" -> "FixedHeader::read"

ThisCall == [call |-> call, arg |-> arg, bytes |-> out]

\* The caller reads back what a successful write produced, over exactly the
\* bytes written.
ReadBack ==
    /\ pc = "done"
    /\ call \in WriteCalls
    /\ res.kind = "Ok"
    /\ prev = NoPrev
    /\ Begin(ReaderOf(call), NoArg, out, 0, ThisCall)

\* The caller writes back the header a successful FixedHeader::read produced,
\* into a channel with room for the bytes that were read.
WriteBack ==
    /\ pc = "done"
    /\ call = "FixedHeader::read"
    /\ res.kind = "Ok"
    /\ prev = NoPrev
    /\ Begin("FixedHeader::write", HdrArg(res.hdr), <<>>, rpos,
             [call |-> call, arg |-> arg, bytes |-> SubSeq(inp, 1, rpos)])

\* The caller converts a PacketType conversion's result back.
ConvertBack ==
    /\ pc = "done"
    /\ prev = NoPrev
    /\ \/ /\ call = "PacketType::from_bits"
          /\ res.hdr.type_ \in PacketTypeSet
          /\ Call_to_bits(res.hdr.type_, ThisCall)
       \/ /\ call = "PacketType::to_bits"
          /\ Call_from_bits(res.val.lo, ThisCall)

\* The call has returned and the caller drops its channel.
Return ==
    /\ pc = "done"
    /\ call' = "none"
    /\ pc' = "idle"
    /\ arg' = NoArg
    /\ inp' = <<>>
    /\ rpos' = 0
    /\ out' = <<>>
    /\ cap' = 0
    /\ multiplier' = U32Of(1)
    /\ value' = Zero32
    /\ num' = Zero32
    /\ type_' = "none"
    /\ flags' = 0
    /\ res' = Pending
    /\ log' = <<>>
    /\ prev' = NoPrev
    /\ overflow' = FALSE

Next ==
    \/ CallRead
    \/ CallHeaderRead
    \/ CallWrite
    \/ CallHeaderWrite
    \/ CallFromBits
    \/ CallToBits
    \/ read_u8
    \/ read_u16
    \/ read_u32
    \/ read_variable_byte_integer
    \/ write_u8
    \/ write_u16
    \/ write_u32
    \/ write_variable_byte_integer
    \/ FixedHeader_read
    \/ FixedHeader_write
    \/ ReadBack
    \/ WriteBack
    \/ ConvertBack
    \/ Return

Spec == Init /\ [][Next]_vars

\* ---------------------------------------------- the wire format, by the book

\* The variable-byte-integer format stated arithmetically, on numbers: what the
\* properties below compare the program's behaviour with.

IsPrefix(a, b) == Len(a) <= Len(b) /\ a = SubSeq(b, 1, Len(a))

RECURSIVE Pow128(_)
Pow128(i) == IF i = 0 THEN 1 ELSE 128 * Pow128(i - 1)

\* The largest variable-byte integer is 268435455 = 4096 * 65536 - 1.
InVbiRange(x) == x.hi < 4096

\* The number of bytes of the minimal encoding of v in [0, 268435455].
RefLen(v) ==
    IF v <= 127 THEN 1
    ELSE IF v <= 16383 THEN 2
    ELSE IF v <= 2097151 THEN 3
    ELSE 4

\* Byte i (from 0) of the n-byte encoding of v.
RefByte(v, i, n) ==
    ((v \div Pow128(i)) % 128) + (IF i < n - 1 THEN 128 ELSE 0)

RefEncoding(v) == [i \in 1..RefLen(v) |-> RefByte(v, i - 1, RefLen(v))]

\* s starts with an encoding of at most four bytes: k - 1 bytes with the
\* continuation bit, then one without.
RefEndsAt(s, k) ==
    /\ k <= Len(s)
    /\ \A i \in 1..(k - 1) : s[i] >= 128
    /\ s[k] < 128
RefAccepts(s) == \E k \in 1..4 : RefEndsAt(s, k)
RefK(s) == CHOOSE k \in 1..4 : RefEndsAt(s, k)

RECURSIVE RefSum(_, _)
RefSum(s, k) ==
    IF k = 0 THEN 0
    ELSE RefSum(s, k - 1) + (s[k] % 128) * Pow128(k - 1)
RefValue(s) == RefSum(s, RefK(s))

\* An accepted encoding is minimal when it is one byte or its last digit is
\* not zero.
RefMinimal(s) == RefAccepts(s) /\ (RefK(s) = 1 \/ s[RefK(s)] # 0)

\* The base-128 digits of any u32, least significant first, each but the last
\* with the continuation bit.
RECURSIVE RefEncoding32(_)
RefEncoding32(x) ==
    IF Div32(x, 128) = Zero32 THEN <<Mod32(x, 128)>>
    ELSE <<Mod32(x, 128) + 128>> \o RefEncoding32(Div32(x, 128))

\* The code point of a packet type: its place in the enumeration.
RefCode(t) == CHOOSE n \in 0..15 : PacketTypes[n + 1] = t

RefHeaderEncoding(h) ==
    <<RefCode(h.type_) * 16 + (h.flags % 16)>> \o RefEncoding32(h.remaining_length)

Done(c) == call = c /\ pc = "done"
LastFailed == log # <<>> /\ ~log[Len(log)].ok
SingleByteOps(op) ==
    \A i \in 1..Len(log) : log[i].op = op /\ log[i].n = 1

\* ------------------------------------------------------------------ claims

\* C1: for every v in [0, 268435455], write_variable_byte_integer(v) into a
\* channel with enough room followed by read_variable_byte_integer over exactly
\* the bytes written succeeds and returns v.
C1_RoundTrip ==
    ( /\ Done("read_variable_byte_integer")
      /\ prev.call = "write_variable_byte_integer"
      /\ InVbiRange(prev.arg.val) )
    => /\ inp = prev.bytes
       /\ res = Ok(prev.arg.val)

C1_Witness ==
    /\ Done("read_variable_byte_integer")
    /\ prev.call = "write_variable_byte_integer"
    /\ prev.arg.val = U32Of(268435455)
    /\ inp = <<255, 255, 255, 127>>
    /\ res = Ok(U32Of(268435455))

\* C2: for every v in [0, 268435455] and a channel that accepts every write,
\* write_variable_byte_integer ends after writing exactly n bytes, n = 1, 2, 3, 4
\* for v up to 127, 16383, 2097151, 268435455; byte i has low seven bits
\* floor(v / 128^i) mod 128 and its top bit set exactly when i < n - 1.
C2_MinimalEncoding ==
    ( /\ call = "write_variable_byte_integer"
      /\ InVbiRange(arg.val)
      /\ cap >= 4 )
    => LET v == NatOf(arg.val)
       IN  /\ pc = "vbi" => Len(out) < RefLen(v)
           /\ pc = "done" =>
                /\ res = OkUnit
                /\ out = RefEncoding(v)
                /\ Len(log) = RefLen(v)
                /\ SingleByteOps("write_all")

C2_Witness ==
    /\ Done("write_variable_byte_integer")
    /\ arg.val = U32Of(16384)
    /\ out = <<128, 128, 1>>
    /\ res = OkUnit

\* C3: whenever the first four bytes the channel delivers to
\* read_variable_byte_integer all have the continuation bit set, the call fails
\* with MalformedPacketError whatever their low seven bits and whatever
\* follows, after exactly four single-byte reads and without a fifth.
C3_RejectsFiveBytes ==
    ( /\ call = "read_variable_byte_integer"
      /\ Len(inp) >= 4
      /\ \A i \in 1..4 : inp[i] >= 128 )
    => /\ Len(log) <= 4
       /\ rpos <= 4
       /\ Len(log) = 4 => pc = "done"
       /\ pc = "done" =>
            /\ res = MalformedPacketError
            /\ Len(log) = 4
            /\ rpos = 4
            /\ SingleByteOps("read_exact")
            /\ \A i \in 1..4 : log[i].ok

C3_Witness ==
    /\ Done("read_variable_byte_integer")
    /\ inp = <<128, 255, 129, 128, 1>>
    /\ rpos = 4
    /\ res = MalformedPacketError

\* The error a call must return for the channel failure a log entry records.
ErrorFor(entry) ==
    IF entry.op = "read_exact" /\ entry.status = "UnexpectedEof"
    THEN MalformedPacketError
    ELSE NetworkError(entry.status)

\* C4: in every read operation a channel read that reports unexpected
\* end-of-data makes the call fail with MalformedPacketError and one that fails
\* with another error e makes it fail with NetworkError(e); in every write
\* operation a channel write that fails with e makes the call fail with
\* NetworkError(e), and no write operation returns MalformedPacketError.
C4_ErrorKinds ==
    /\ (call \in ReadCalls /\ pc = "done" /\ LastFailed) =>
            LET entry == log[Len(log)]
            IN  /\ entry.status = "UnexpectedEof" => res = MalformedPacketError
                /\ entry.status \in TransportErrors =>
                        res = NetworkError(entry.status)
                /\ entry.status \in TransportErrors \cup {"UnexpectedEof"}
    /\ (call \in WriteCalls /\ pc = "done" /\ LastFailed) =>
            /\ log[Len(log)].status \in TransportErrors
            /\ res = NetworkError(log[Len(log)].status)
    /\ call \in WriteCalls => res.kind # "MalformedPacketError"

C4_Witness ==
    /\ Done("read_u32")
    /\ inp = <<1, 127, 128>>
    /\ LastFailed
    /\ log[1].status = "UnexpectedEof"
    /\ res = MalformedPacketError

\* C5: for every control byte b in 0..255 followed by a variable-byte integer
\* that the reader accepts with value L, FixedHeader::read succeeds with
\* packet_type = PacketType::from_bits(b >> 4), flags = b & 0x0F and
\* remaining_length = L; no value of b causes an error.
C5_HeaderReadTotal ==
    ( /\ Done("FixedHeader::read")
      /\ inp # <<>>
      /\ RefAccepts(Tail(inp)) )
    => LET b == inp[1]
       IN  /\ res.kind = "Ok"
           /\ res.hdr.type_ = from_bits(b \div 16)
           /\ res.hdr.type_ \in PacketTypeSet
           /\ RefCode(res.hdr.type_) = b \div 16
           /\ res.hdr.flags = b % 16
           /\ res.hdr.remaining_length = U32Of(RefValue(Tail(inp)))

C5_Witness ==
    /\ Done("FixedHeader::read")
    /\ inp = <<61, 127>>
    /\ res = OkHeader([type_ |-> "Publish", flags |-> 13,
                       remaining_length |-> U32Of(127)])

\* C6: for every header with any packet type, flags in [0, 15] and
\* remaining_length in [0, 268435455], FixedHeader::write into a channel with
\* enough room followed by FixedHeader::read over the bytes written yields the
\* same header; and for a control byte followed by a minimal-length encoding,
\* writing the header FixedHeader::read produced emits the identical bytes.
C6_HeaderRoundTrip ==
    /\ ( /\ Done("FixedHeader::read")
         /\ prev.call = "FixedHeader::write"
         /\ prev.arg.hdr.flags \in 0..15
         /\ InVbiRange(prev.arg.hdr.remaining_length) )
       => /\ inp = prev.bytes
          /\ res = OkHeader(prev.arg.hdr)
    /\ ( /\ Done("FixedHeader::write")
         /\ prev.call = "FixedHeader::read"
         /\ RefMinimal(Tail(prev.bytes)) )
       => /\ res = OkUnit
          /\ out = prev.bytes

C6_Witness ==
    /\ Done("FixedHeader::read")
    /\ prev.call = "FixedHeader::write"
    /\ prev.arg.hdr = [type_ |-> "Auth", flags |-> 15,
                       remaining_length |-> U32Of(268435455)]
    /\ inp = <<255, 255, 255, 255, 127>>
    /\ res = OkHeader(prev.arg.hdr)

C6_WitnessWriteBack ==
    /\ Done("FixedHeader::write")
    /\ prev.call = "FixedHeader::read"
    /\ prev.bytes = <<61, 128, 128, 127>>
    /\ out = prev.bytes

\* C7: to_bits(from_bits(n)) = n for every n in [0, 15]; from_bits(to_bits(t)) = t
\* for each of the 16 variants; from_bits(b) = from_bits(b & 0x0F) for every
\* byte b, and the unreachable arm of from_bits is never taken.
C7_PacketTypeBits ==
    /\ ( /\ Done("PacketType::to_bits")
         /\ prev.call = "PacketType::from_bits"
         /\ NatOf(prev.arg.val) \in 0..15 )
       => res = Ok(prev.arg.val)
    /\ ( /\ Done("PacketType::from_bits")
         /\ prev.call = "PacketType::to_bits" )
       => res = OkType(prev.arg.hdr.type_)
    /\ Done("PacketType::from_bits")
       => /\ res = OkType(from_bits(NatOf(arg.val) % 16))
          /\ res.hdr.type_ \in PacketTypeSet
          /\ RefCode(res.hdr.type_) = NatOf(arg.val) % 16

C7_Witness ==
    /\ Done("PacketType::to_bits")
    /\ prev.call = "PacketType::from_bits"
    /\ prev.arg.val = U32Of(13)
    /\ arg.hdr.type_ = "PingResp"
    /\ res = Ok(U32Of(13))

\* C8: for every k in [1, 4] and every channel whose first k bytes have the
\* continuation bit set on all but the last, read_variable_byte_integer succeeds
\* with the sum of (b_i & 0x7F) * 128^i, after consuming exactly k bytes and
\* leaving every later byte unread; a non-minimal encoding such as [0x80, 0x00]
\* decodes like the shorter one.
C8_Base128Accumulation ==
    ( /\ call = "read_variable_byte_integer"
      /\ RefAccepts(inp) )
    => LET k == RefK(inp)
       IN  /\ rpos <= k
           /\ Len(log) = rpos
           /\ rpos = k => pc = "done"
           /\ pc = "done" =>
                /\ res = Ok(U32Of(RefValue(inp)))
                /\ rpos = k
                /\ SingleByteOps("read_exact")

C8_Witness ==
    /\ Done("read_variable_byte_integer")
    /\ inp = <<128, 0, 255>>
    /\ rpos = 2
    /\ res = Ok(Zero32)

\* C9: in every call the first channel operation that fails is the last one
\* the call issues, and the call returns that failure; when the control byte's
\* read or write fails, FixedHeader::read and FixedHeader::write issue no
\* operation for the remaining length.
C9_FailureEndsCall ==
    \A i \in 1..Len(log) :
        ~log[i].ok =>
            /\ i = Len(log)
            /\ pc = "done"
            /\ res = ErrorFor(log[i])

C9_Witness ==
    /\ Done("FixedHeader::write")
    /\ arg.hdr.remaining_length = U32Of(16384)
    /\ cap = 0
    /\ Len(log) = 1
    /\ out = <<>>
    /\ res = NetworkError("e1")

\* The bytes a write call hands to the channel when nothing fails.
FullEncoding ==
    IF call = "FixedHeader::write" THEN RefHeaderEncoding(arg.hdr)
    ELSE RefEncoding32(arg.val)

AcceptedWrites == {i \in 1..Len(log) : log[i].ok}

\* C10: write_variable_byte_integer and FixedHeader::write hand their output to
\* the channel one byte at a time in wire order, so whenever either fails with
\* NetworkError(e) the bytes the channel accepted during the call are a proper
\* prefix of the full encoding, and they are not rolled back.
C10_PartialOutputIsPrefix ==
    call \in {"write_variable_byte_integer", "FixedHeader::write"}
    => /\ SingleByteOps("write_all")
       /\ IsPrefix(out, FullEncoding)
       /\ Len(out) = Cardinality(AcceptedWrites)
       /\ (pc = "done" /\ res.kind = "NetworkError") =>
            /\ Len(out) < Len(FullEncoding)
       /\ (pc = "done" /\ res.kind = "Ok") => out = FullEncoding

C10_Witness ==
    /\ Done("FixedHeader::write")
    /\ arg.hdr = [type_ |-> "Connect", flags |-> 0,
                  remaining_length |-> U32Of(128)]
    /\ cap = 2
    /\ out = <<16, 128>>
    /\ res = NetworkError("e2")

\* The weights read_variable_byte_integer multiplies a digit by.
DigitWeights == {U32Of(Pow128(i)) : i \in 0..3}

\* C11: in every state of read_variable_byte_integer, whatever the byte stream
\* and also when the call ends in an error, value stays within [0, 268435455],
\* the multiplier a digit is multiplied by is one of 1, 128, 128^2, 128^3, and
\* the multiplier never exceeds 128^4 after being multiplied by 128; so no u32
\* addition or multiplication wraps, and every successful result lies in
\* [0, 268435455].
C11_NoOverflow ==
    call \in {"read_variable_byte_integer", "FixedHeader::read"}
    => /\ ~overflow
       /\ InVbiRange(value)
       /\ pc = "vbi" => multiplier \in DigitWeights
       /\ multiplier \in DigitWeights \cup {U32Of(Pow128(4))}
       /\ (pc = "done" /\ res.kind = "Ok") =>
            /\ InVbiRange(res.val)
            /\ InVbiRange(res.hdr.remaining_length)
            /\ value = (IF call = "FixedHeader::read"
                        THEN res.hdr.remaining_length ELSE res.val)

C11_Witness ==
    /\ Done("read_variable_byte_integer")
    /\ inp = <<255, 255, 255, 127, 255>>
    /\ multiplier = U32Of(Pow128(3))
    /\ value = U32Of(268435455)
    /\ res = Ok(U32Of(268435455))
    /\ ~overflow

\* The same at the rejection of a fifth byte: the multiplier has reached 128^4
\* and value holds the first four digits.
C11_WitnessRejected ==
    /\ Done("read_variable_byte_integer")
    /\ inp = <<255, 255, 255, 255, 255>>
    /\ multiplier = U32Of(Pow128(4))
    /\ value = U32Of(268435455)
    /\ res = MalformedPacketError
    /\ ~overflow

====
